---- MODULE Spec2Model ----
(***************************************************************************)
(* RAGIT: the repository sync trigger (backend/routers/repository.py) and  *)
(* the incremental update pipeline of the worker (rag_worker/tasks.py),    *)
(* with the git change detection, the whole-repository reparse and the     *)
(* vector index they act on.                                               *)
(***************************************************************************)
EXTENDS Integers, Sequences, FiniteSets, TLC

\* ------------------------------------------------------------------ bounds
\* sync requests accepted after the initial processing
MaxSync == 3
\* upstream commits pushed after the initial processing
MaxPush == 1

\* the worker processes of the task pool that execute dispatched tasks
Workers == {"w1", "w2"}

Absent == 0
\* every upstream commit writes a new content, parsed into its own generation
\* of chunks; generation 1 is the content the repository was first processed
\* with
Gens == 1 .. (MaxPush + 1)

\* ------------------------------------------------------- the source tree
\* tracked files, in the order `git diff --name-only` lists them
RepoFiles ==
  << [stem |-> "a", ext |-> "md"],
     [stem |-> "a", ext |-> "py"],
     [stem |-> "c", ext |-> "md"] >>

FileIds == 1 .. Len(RepoFiles)

\* Path(p).with_suffix(s): the same path with its extension replaced
with_suffix(p, s) == [p EXCEPT !.ext = s]

\* FileScanner.scan_repository: the Python files present in a tree
scan_repository(tree) ==
  { k \in FileIds : RepoFiles[k].ext = "py" /\ tree[k] # Absent }

\* GitService._format_source_file: every path with extension .json
_format_source_file(file_paths) ==
  [ k \in 1 .. Len(file_paths) |-> with_suffix(file_paths[k], "json") ]

\* the names an artifact or an index entry can carry
JsonTags == { with_suffix(RepoFiles[k], "json") : k \in FileIds }

\* the Python file whose artifact is written under tag t
PyFileOf(t) ==
  IF \E k \in FileIds : RepoFiles[k] = with_suffix(t, "py")
    THEN CHOOSE k \in FileIds : RepoFiles[k] = with_suffix(t, "py")
    ELSE 0

RECURSIVE SelectFiles(_, _)
SelectFiles(k, differs) ==
  IF k > Len(RepoFiles) THEN << >>
  ELSE (IF k \in differs THEN << RepoFiles[k] >> ELSE << >>)
       \o SelectFiles(k + 1, differs)

\* GitService.diff_files, after the fetch: the names git reports as
\* differing between HEAD and origin/main, formatted
diff_files(head, remote) ==
  _format_source_file(SelectFiles(1, { k \in FileIds : head[k] # remote[k] }))

Range(s) == { s[k] : k \in 1 .. Len(s) }

\* ------------------------------------------------------ the derived index
EmptyEntries == [ g \in Gens |-> 0 ]

\* the delete with a filter that matches every entity
delete_entities_unfiltered(idx, source_files) ==
  [ t \in JsonTags |-> EmptyEntries ]

\* CollectionManager.delete_entities_by_source_files: one delete with the
\* filter `_source_file IN [...]`
delete_entities_by_source_files(idx, source_files) ==
  [ t \in JsonTags |->
      IF t \in Range(source_files) THEN EmptyEntries ELSE idx[t] ]

\* VectorDBService.embed_documents: the chunks of one artifact are inserted,
\* tagged with the artifact they come from
embed_documents(idx, t, g) ==
  [ idx EXCEPT ![t] = [ @ EXCEPT ![g] = @ + 1 ] ]

\* RepositoryParserService.parse_repository with save_json: the artifact of
\* every scanned file that chunk_file could parse is overwritten
parse_repository(art, tree, unparsable) ==
  [ t \in JsonTags |->
      IF PyFileOf(t) \in scan_repository(tree) \ unparsable
        THEN tree[PyFileOf(t)]
        ELSE art[t] ]

\* --------------------------------------------------------------- the state
VARIABLES
  status,           \* Repository.status
  vectordb_status,  \* Repository.vectordb_status
  error_message,    \* Repository.error_message
  queued,           \* update_repository_pipeline tasks sent and not yet started
  syncCount,        \* sync requests accepted so far
  run,              \* per worker: the update_repository_pipeline run it executes
  result,           \* the dict the last finished run returned, with its steps
  upstream,         \* content of each file at the remote main branch
  pushCount,        \* upstream commits so far
  local,            \* content of each file at the local HEAD
  artifacts,        \* parsed_repository/<repo>/<name>.json: generation or Absent
  index,            \* per tag and generation: copies of its chunks in the index
  differ,           \* a call of DiffGenerator.generate_highlighted_diff
  tracer,           \* calls of FunctionHistoryTracker.trace_history
  poller,           \* the sync status timer of the repository settings page
  git,              \* the git calls of one sync run and the clone they act on
  initial,          \* where the repository's process_repository_pipeline is
  parser            \* a call of CodeParser.find_node_body with a line range

vars == << status, vectordb_status, error_message, queued, syncCount, run,
           result, upstream, pushCount, local, artifacts, index, differ,
           tracer, poller, git, initial, parser >>

\* the state the sync trigger and the update pipeline act on
pipeline == << status, vectordb_status, error_message, queued, syncCount, run,
               result, upstream, pushCount, local, artifacts, index >>

\* the state of the history tracker and its diff renderer
history_tracker == << differ, tracer >>

repository == << status, vectordb_status, error_message >>
broker == << queued, syncCount >>
remote == << upstream, pushCount >>

\* a worker that executes no task
IdleRun ==
  [ pc |-> "idle", files |-> << >>, i |-> 1,
    deleted_count |-> 0, embedded_count |-> 0, trace |-> << >> ]

NoResult ==
  [ outcome |-> "none", deleted_count |-> 0, embedded_count |-> 0,
    trace |-> << >> ]

\* no call of the diff renderer
NoDiff == [ pc |-> "idle" ]

\* no call of the history tracker
NoTrace == [ pc |-> "idle" ]

\* no git call in progress
NoGit == [ pc |-> "idle" ]

\* no call of the parser
NoCall == [ pc |-> "idle" ]

\* no status timer on the page
NoPoll == [ pc |-> "idle", check_count |-> 0, sync |-> 0 ]

\* the repository after process_repository_pipeline has succeeded
PipelineInit ==
  /\ status = "active"
  /\ vectordb_status = "active"
  /\ error_message = "none"
  /\ queued = 0
  /\ syncCount = 0
  /\ run = [ w \in Workers |-> IdleRun ]
  /\ result = NoResult
  /\ upstream = [ k \in FileIds |-> 1 ]
  /\ pushCount = 0
  /\ local = [ k \in FileIds |-> 1 ]
  /\ artifacts = [ t \in JsonTags |-> IF PyFileOf(t) # 0 THEN 1 ELSE Absent ]
  /\ index = [ t \in JsonTags |->
                [ g \in Gens |-> IF g = artifacts[t] THEN 1 ELSE 0 ] ]
  /\ poller = NoPoll
  /\ initial = "done"

Init ==
  /\ differ = NoDiff
  /\ tracer = NoTrace
  /\ git = NoGit
  /\ parser = NoCall
  /\ PipelineInit

\* ------------------------------------------------------------ the trigger
\* a gate that forgets the status of a first processing under way
AlreadyProcessingUpdatingOnly(st) == st \in { "updating", "pending" }

\* sync_repository: the "already being processed" test on Repository.status
AlreadyProcessing(st) == st \in { "syncing", "updating", "pending" }

\* RepositoryService.update_repository_status(db, repo_id, status,
\* vectordb_status): the pipeline passes it no message
update_repository_status(st, vs) ==
  /\ status' = st
  /\ vectordb_status' = vs
  /\ error_message' = error_message

\* the handler of POST /api/repositories/{repo_id}/sync: HTTP 400 while the
\* repository is being processed; otherwise the task is sent (or HTTP 500 if
\* it cannot be)
SyncRequest ==
  IF AlreadyProcessing(status)
    THEN UNCHANGED broker
    ELSE \/ /\ syncCount < MaxSync
            /\ queued' = queued + 1
            /\ syncCount' = syncCount + 1
         \/ UNCHANGED broker

\* a client calls the endpoint
sync_repository ==
  /\ SyncRequest
  /\ UNCHANGED << repository, run, result, remote, local, artifacts, index,
                  history_tracker, poller, git, initial, parser >>

\* --------------------------------------------------------- the environment
\* the file of the tree with this name
File(stem, ext) ==
  CHOOSE k \in FileIds : RepoFiles[k] = [stem |-> stem, ext |-> ext]

\* the commits that can be pushed: the files a commit rewrites and removes
Commits ==
  { [ rewrites |-> { File("a", "py"), File("c", "md") }, removes |-> { } ],
    [ rewrites |-> { File("a", "md"), File("a", "py") }, removes |-> { } ],
    [ rewrites |-> { File("c", "md") }, removes |-> { } ],
    [ rewrites |-> { }, removes |-> { File("a", "py") } ] }

\* a commit is pushed to the remote main branch
Push ==
  /\ pushCount < MaxPush
  /\ \E c \in Commits :
       /\ \A k \in c.rewrites \cup c.removes : upstream[k] # Absent
       /\ upstream' = [ k \in FileIds |->
                          IF k \in c.rewrites THEN pushCount + 2
                          ELSE IF k \in c.removes THEN Absent
                          ELSE upstream[k] ]
  /\ pushCount' = pushCount + 1
  /\ UNCHANGED << repository, broker, run, result, local, artifacts, index,
                  history_tracker, poller, git, initial, parser >>

\* ------------------------------------------------------------ the pipeline
Step(name, res) == [ step |-> name, result |-> res ]

\* the run after a step has ended with result res
Done(r, name, res) == [ r EXCEPT !.trace = Append(@, Step(name, res)) ]

\* the step goes on to the next one
Continue(w, r, next) ==
  /\ run' = [ run EXCEPT ![w] = [ r EXCEPT !.pc = next ] ]
  /\ UNCHANGED result

\* return {...}: the task ends and hands back its result dict
Return(w, r, name) ==
  /\ run' = [ run EXCEPT ![w] = IdleRun ]
  /\ result' = [ outcome |-> name,
                 deleted_count |-> r.deleted_count,
                 embedded_count |-> r.embedded_count,
                 trace |-> r.trace ]

\* return {"success": False, ..., "step": name}
Abort(w, name) == Return(w, Done(run[w], name, "failed"), name)

\* a worker takes the task from the queue; status becomes updating
StartRun(w) ==
  /\ run[w].pc = "idle"
  /\ queued > 0
  /\ queued' = queued - 1
  /\ update_repository_status("updating", "pending")
  /\ Continue(w, IdleRun, "diff")
  /\ UNCHANGED << syncCount, remote, local, artifacts, index,
                  history_tracker, poller, git, initial, parser >>

\* step 1 with a failed diff recorded as if the sync had succeeded
DiffStepFailureRecordedActive(w) ==
  /\ run[w].pc = "diff"
  /\ \/ /\ Continue(w, [ Done(run[w], "diff", "ok") EXCEPT
                           !.files = diff_files(local, upstream) ], "pull")
        /\ UNCHANGED repository
     \/ /\ update_repository_status("active", "active")
        /\ Abort(w, "diff")
  /\ UNCHANGED << broker, remote, local, artifacts, index,
                  history_tracker, poller, git, initial, parser >>

\* step 1: git fetch, then the names that differ between HEAD and origin/main
DiffStep(w) ==
  /\ run[w].pc = "diff"
  /\ \/ /\ Continue(w, [ Done(run[w], "diff", "ok") EXCEPT
                           !.files = diff_files(local, upstream) ], "pull")
        /\ UNCHANGED repository
     \/ /\ update_repository_status("active", "error")
        /\ Abort(w, "diff")
  /\ UNCHANGED << broker, remote, local, artifacts, index,
                  history_tracker, poller, git, initial, parser >>

\* step 2 going on to the reparse without the invalidation step
PullStepSkipsInvalidation(w) ==
  /\ run[w].pc = "pull"
  /\ \/ /\ local' = upstream
        /\ update_repository_status("updating", "updating")
        /\ Continue(w, Done(run[w], "pull", "ok"), "parse")
     \/ /\ update_repository_status("error", "error")
        /\ Abort(w, "pull")
        /\ UNCHANGED local
  /\ UNCHANGED << broker, remote, artifacts, index,
                  history_tracker, poller, git, initial, parser >>

\* step 2: git checkout main, git pull
PullStep(w) ==
  /\ run[w].pc = "pull"
  /\ \/ /\ local' = upstream
        /\ update_repository_status("updating", "updating")
        /\ Continue(w, Done(run[w], "pull", "ok"), "delete_entities")
     \/ /\ update_repository_status("error", "error")
        /\ Abort(w, "pull")
        /\ UNCHANGED local
  /\ UNCHANGED << broker, remote, artifacts, index,
                  history_tracker, poller, git, initial, parser >>

\* step 3 logging a failed delete and going on to the reparse
DeleteStepIgnoresFailure(w) ==
  /\ run[w].pc = "delete_entities"
  /\ \/ /\ run[w].files = << >>
        /\ Continue(w, Done(run[w], "delete_entities", "skipped"), "parse")
        /\ UNCHANGED << repository, index >>
     \/ /\ run[w].files # << >>
        /\ index' = delete_entities_by_source_files(index, run[w].files)
        /\ Continue(w, [ Done(run[w], "delete_entities", "ok") EXCEPT
                           !.deleted_count = Len(run[w].files) ], "parse")
        /\ UNCHANGED repository
     \/ /\ run[w].files # << >>
        /\ Continue(w, Done(run[w], "delete_entities", "failed"), "parse")
        /\ UNCHANGED << repository, index >>
  /\ UNCHANGED << broker, remote, local, artifacts,
                  history_tracker, poller, git, initial, parser >>

\* step 3 reporting the number of distinct paths instead of len(files)
DeleteStepCountsDistinctPaths(w) ==
  /\ run[w].pc = "delete_entities"
  /\ \/ /\ run[w].files = << >>
        /\ Continue(w, Done(run[w], "delete_entities", "skipped"), "parse")
        /\ UNCHANGED << repository, index >>
     \/ /\ run[w].files # << >>
        /\ index' = delete_entities_by_source_files(index, run[w].files)
        /\ Continue(w, [ Done(run[w], "delete_entities", "ok") EXCEPT
                           !.deleted_count = Cardinality(Range(run[w].files)) ],
                    "parse")
        /\ UNCHANGED repository
     \/ /\ run[w].files # << >>
        /\ update_repository_status("active", "error")
        /\ Abort(w, "delete_entities")
        /\ UNCHANGED index
  /\ UNCHANGED << broker, remote, local, artifacts,
                  history_tracker, poller, git, initial, parser >>

\* step 3: the index entries of the changed files are deleted
DeleteStep(w) ==
  /\ run[w].pc = "delete_entities"
  /\ \/ /\ run[w].files = << >>
        /\ Continue(w, Done(run[w], "delete_entities", "skipped"), "parse")
        /\ UNCHANGED << repository, index >>
     \/ /\ run[w].files # << >>
        /\ index' = delete_entities_by_source_files(index, run[w].files)
        /\ Continue(w, [ Done(run[w], "delete_entities", "ok") EXCEPT
                           !.deleted_count = Len(run[w].files) ], "parse")
        /\ UNCHANGED repository
     \/ /\ run[w].files # << >>
        /\ update_repository_status("active", "error")
        /\ Abort(w, "delete_entities")
        /\ UNCHANGED index
  /\ UNCHANGED << broker, remote, local, artifacts,
                  history_tracker, poller, git, initial, parser >>

\* step 4: the whole repository is parsed again
ParseStep(w) ==
  /\ run[w].pc = "parse"
  /\ \/ \E unparsable \in SUBSET scan_repository(local) :
          /\ artifacts' = parse_repository(artifacts, local, unparsable)
          /\ Continue(w, [ Done(run[w], "parse", "ok") EXCEPT !.i = 1 ],
                      "embed")
          /\ UNCHANGED repository
     \/ /\ update_repository_status("error", "error")
        /\ Abort(w, "parse")
        /\ UNCHANGED artifacts
  /\ UNCHANGED << broker, remote, local, index,
                  history_tracker, poller, git, initial, parser >>

\* step 5 with a missing artifact taken as a failed embedding
EmbedStepMissingArtifactFails(w) ==
  /\ run[w].pc = "embed"
  /\ run[w].i <= Len(run[w].files)
  /\ LET t == run[w].files[run[w].i]
     IN \/ /\ artifacts[t] # Absent
           /\ index' = embed_documents(index, t, artifacts[t])
           /\ Continue(w, [ run[w] EXCEPT !.i = @ + 1,
                                          !.embedded_count = @ + 1 ], "embed")
           /\ UNCHANGED repository
        \/ /\ update_repository_status("active", "error")
           /\ Abort(w, "embed")
           /\ UNCHANGED index
  /\ UNCHANGED << broker, remote, local, artifacts,
                  history_tracker, poller, git, initial, parser >>

\* step 5, one pass of the loop over files_to_update
EmbedStep(w) ==
  /\ run[w].pc = "embed"
  /\ run[w].i <= Len(run[w].files)
  /\ LET t == run[w].files[run[w].i]
     IN \/ /\ artifacts[t] = Absent
           /\ Continue(w, [ run[w] EXCEPT !.i = @ + 1 ], "embed")
           /\ UNCHANGED << repository, index >>
        \/ /\ artifacts[t] # Absent
           /\ index' = embed_documents(index, t, artifacts[t])
           /\ Continue(w, [ run[w] EXCEPT !.i = @ + 1,
                                          !.embedded_count = @ + 1 ], "embed")
           /\ UNCHANGED repository
        \/ /\ artifacts[t] # Absent
           /\ update_repository_status("active", "error")
           /\ Abort(w, "embed")
           /\ UNCHANGED index
  /\ UNCHANGED << broker, remote, local, artifacts,
                  history_tracker, poller, git, initial, parser >>

\* the final write leaving vectordb_status at its in-progress value
FinishStepKeepsUpdating(w) ==
  /\ run[w].pc = "embed"
  /\ run[w].i > Len(run[w].files)
  /\ update_repository_status("active", "updating")
  /\ Return(w, Done(Done(run[w], "embed",
                         IF run[w].files = << >> THEN "skipped" ELSE "ok"),
                    "active", "ok"),
            "success")
  /\ UNCHANGED << broker, remote, local, artifacts, index,
                  history_tracker, poller, git, initial, parser >>

\* the loop has ended (or was skipped); the final state is written
FinishStep(w) ==
  /\ run[w].pc = "embed"
  /\ run[w].i > Len(run[w].files)
  /\ update_repository_status("active", "active")
  /\ Return(w, Done(Done(run[w], "embed",
                         IF run[w].files = << >> THEN "skipped" ELSE "ok"),
                    "active", "ok"),
            "success")
  /\ UNCHANGED << broker, remote, local, artifacts, index,
                  history_tracker, poller, git, initial, parser >>

\* the exception handler returning without a write of the state
UnexpectedLeavesStatus(w) ==
  /\ run[w].pc \in { "diff", "pull", "delete_entities", "parse", "embed" }
  /\ Return(w, Done(run[w], run[w].pc, "failed"), "unknown")
  /\ UNCHANGED << repository, broker, remote, local, artifacts, index,
                  history_tracker, poller, git, initial, parser >>

\* except Exception: a step raised instead of returning a result
Unexpected(w) ==
  /\ run[w].pc \in { "diff", "pull", "delete_entities", "parse", "embed" }
  /\ update_repository_status("error", "error")
  /\ Return(w, Done(run[w], run[w].pc, "failed"), "unknown")
  /\ UNCHANGED << broker, remote, local, artifacts, index,
                  history_tracker, poller, git, initial, parser >>

WorkerStep(w) ==
  \/ StartRun(w)
  \/ DiffStep(w)
  \/ PullStep(w)
  \/ DeleteStep(w)
  \/ ParseStep(w)
  \/ EmbedStep(w)
  \/ FinishStep(w)
  \/ Unexpected(w)

Next ==
  \/ sync_repository
  \/ Push
  \/ \E w \in Workers : WorkerStep(w)

Spec == Init /\ [][Next]_vars

\* every worker of the pool goes on with the task it executes, and takes a
\* task that waits in the queue: each call of a step returns
FairSpec == Spec /\ \A w \in Workers : WF_vars(WorkerStep(w))

\* a task pool of one worker process: runs are executed one after another
SeqNext ==
  \/ sync_repository
  \/ Push
  \/ WorkerStep("w1")

SeqSpec == Init /\ [][SeqNext]_vars

\* ------------------------------------------- the repository settings page
\* ticks after which the status timer gives up while the sync is in progress
\* (max_checks of start_sync_status_check)
MaxChecks == 2

\* failed status requests after which the timer is stopped
MaxFailedChecks == 5

\* RepositorySettingsPage.sync_repository: the page calls the sync endpoint
\* and, when the task was started, start_sync_status_check sets up the timer
\* (one timer at a time: the page is not clicked again while it polls)
PageSync ==
  /\ poller.pc # "polling"
  /\ SyncRequest
  /\ poller' = IF queued' = queued + 1
                 THEN [ pc |-> "polling", check_count |-> 0,
                        sync |-> syncCount' ]
                 ELSE poller
  /\ UNCHANGED << repository, run, result, remote, local, artifacts, index,
                  history_tracker, git, initial, parser >>

\* check_status, the timer callback: one tick
check_status ==
  /\ poller.pc = "polling"
  /\ LET check_count == poller.check_count + 1
     IN \/ poller' =
             [ poller EXCEPT
                 !.check_count = check_count,
                 !.pc = IF status = "error" \/ vectordb_status = "error"
                          THEN "failed"
                        ELSE IF status = "active" /\ vectordb_status = "active"
                          THEN "success"
                        ELSE IF check_count >= MaxChecks
                          THEN "timeout"
                        ELSE "polling" ]
        \/ \* get_repository_status raised
           poller' =
             [ poller EXCEPT
                 !.check_count = check_count,
                 !.pc = IF check_count >= MaxFailedChecks
                          THEN "stopped" ELSE "polling" ]
  /\ UNCHANGED << pipeline, history_tracker, git, initial, parser >>

\* the page, the remote and one worker
PollNext ==
  \/ PageSync
  \/ check_status
  \/ Push
  \/ WorkerStep("w1")

PollSpec == Init /\ [][PollNext]_vars

\* ------------------------------------------------- the first processing
\* RepositoryDBHelper.update_repository_status(db, repo_id, status,
\* vectordb_status, error_msg)
update_repository_status_with_message(st, vs, error_msg) ==
  /\ status' = st
  /\ vectordb_status' = vs
  /\ error_message' = error_msg

\* VectorDBService.embed_repository: the chunks of every artifact are inserted
embed_repository(idx, art) ==
  [ t \in JsonTags |->
      IF art[t] = Absent THEN idx[t]
      ELSE [ idx[t] EXCEPT ![art[t]] = @ + 1 ] ]

\* the row RepositoryService.create_repository has inserted: status and
\* vectordb_status at their column default, nothing cloned, parsed or indexed
ProcInit ==
  /\ status = "pending"
  /\ vectordb_status = "pending"
  /\ error_message = "none"
  /\ queued = 0
  /\ syncCount = 0
  /\ run = [ w \in Workers |-> IdleRun ]
  /\ result = NoResult
  /\ upstream = [ k \in FileIds |-> 1 ]
  /\ pushCount = 0
  /\ local = [ k \in FileIds |-> Absent ]
  /\ artifacts = [ t \in JsonTags |-> Absent ]
  /\ index = [ t \in JsonTags |-> EmptyEntries ]
  /\ poller = NoPoll
  /\ differ = NoDiff
  /\ tracer = NoTrace
  /\ git = NoGit
  /\ parser = NoCall
  /\ initial = "creating"

\* POST /api/repositories: the task is sent; if sending fails the error is
\* logged and the repository is returned as created
create_repository ==
  /\ initial = "creating"
  /\ initial' \in { "queued", "unsent" }
  /\ UNCHANGED << pipeline, history_tracker, poller, git, parser >>

\* process_repository_pipeline, step 1: status syncing
ProcessStart ==
  /\ initial = "queued"
  /\ initial' = "clone"
  /\ update_repository_status_with_message("syncing", "pending", error_message)
  /\ UNCHANGED << broker, run, result, remote, local, artifacts, index,
                  history_tracker, poller, git, parser >>

\* step 2: git clone
ProcessClone ==
  /\ initial = "clone"
  /\ \/ /\ local' = upstream
        /\ initial' = "parse"
        /\ UNCHANGED repository
     \/ /\ update_repository_status_with_message("error", "error", "clone")
        /\ initial' = "failed"
        /\ UNCHANGED local
  /\ UNCHANGED << broker, run, result, remote, artifacts, index,
                  history_tracker, poller, git, parser >>

\* steps 3 and 4: the repository is parsed; vectordb_status syncing
ProcessParse ==
  /\ initial = "parse"
  /\ \/ \E unparsable \in SUBSET scan_repository(local) :
          /\ artifacts' = parse_repository(artifacts, local, unparsable)
          /\ update_repository_status_with_message("syncing", "syncing",
                                                   error_message)
          /\ initial' = "embed"
     \/ /\ update_repository_status_with_message("error", "error", "parse")
        /\ initial' = "failed"
        /\ UNCHANGED artifacts
  /\ UNCHANGED << broker, run, result, remote, local, index,
                  history_tracker, poller, git, parser >>

\* steps 5 to 7: the parsed repository is embedded; status active
ProcessEmbed ==
  /\ initial = "embed"
  /\ \/ /\ index' = embed_repository(index, artifacts)
        /\ update_repository_status_with_message("active", "active",
                                                 error_message)
        /\ initial' = "done"
     \/ /\ update_repository_status_with_message("active", "error", "embed")
        /\ initial' = "failed"
        /\ UNCHANGED index
  /\ UNCHANGED << broker, run, result, remote, local, artifacts,
                  history_tracker, poller, git, parser >>

\* except Exception: a step of the first processing raised
ProcessUnexpected ==
  /\ initial \in { "clone", "parse", "embed" }
  /\ update_repository_status_with_message("error", "error", "unknown")
  /\ initial' = "failed"
  /\ UNCHANGED << broker, run, result, remote, local, artifacts, index,
                  history_tracker, poller, git, parser >>

\* a repository from its creation on: the first processing, the sync
\* trigger, the remote and one worker for the update pipeline
ProcNext ==
  \/ create_repository
  \/ ProcessStart
  \/ ProcessClone
  \/ ProcessParse
  \/ ProcessEmbed
  \/ ProcessUnexpected
  \/ sync_repository
  \/ Push
  \/ WorkerStep("w1")

ProcSpec == ProcInit /\ [][ProcNext]_vars

\* ------------------------------------------------- the git calls of a run
\* the stderr texts of a failed command
Stderrs == { "fatal: unable to access", "error: cannot lock ref" }

\* the ways GitCommandRunner.run ends: it returns, or raises GitCommandError
\* with the stderr text (non-zero exit status), or GitTimeoutError
Completed == [ raised |-> "none", text |-> "" ]
GitCommandError(stderr) == [ raised |-> "GitCommandError", text |-> stderr ]
GitTimeoutError ==
  [ raised |-> "GitTimeoutError", text |-> "Command timed out after 300 seconds" ]
RepositoryNotFoundError ==
  [ raised |-> "RepositoryNotFoundError", text |-> "Repository not found" ]

Outcomes ==
  { Completed, GitTimeoutError } \cup { GitCommandError(e) : e \in Stderrs }

\* command_runner.run(command, cwd=repo_path), entered in the log of calls
Call(command, outcome) == [ command |-> command, outcome |-> outcome ]

\* the tree the repository was cloned with, and the tree after a commit
InitialTree == [ k \in FileIds |-> 1 ]
Pushed(c) ==
  [ k \in FileIds |->
      IF k \in c.rewrites THEN 2 ELSE IF k \in c.removes THEN Absent ELSE 1 ]

\* no result yet; the dict of a failed operation with the exception's text
\* as its error; the dict of diff_files with its files
NotReturned ==
  [ returned |-> FALSE, success |-> FALSE, files |-> << >>, error |-> "" ]
FailureWithoutText(e) ==
  [ returned |-> TRUE, success |-> FALSE, files |-> << >>, error |-> "" ]
Failure(e) ==
  [ returned |-> TRUE, success |-> FALSE, files |-> << >>, error |-> e.text ]
Success(files) ==
  [ returned |-> TRUE, success |-> TRUE, files |-> files, error |-> "" ]

\* a fetch that also merges what it fetched into the checked-out branch
fetch_and_merge(g) ==
  [ g EXCEPT !.origin_main = g.upstream, !.HEAD = g.upstream,
             !.worktree = g.upstream ]

\* git fetch: the remote-tracking branch origin/main is brought up to date
fetch(g) == [ g EXCEPT !.origin_main = g.upstream ]

\* git pull on main: origin/main is fetched and merged into HEAD and into
\* the checked-out files
pull(g) ==
  [ g EXCEPT !.origin_main = g.upstream, !.HEAD = g.upstream,
             !.worktree = g.upstream ]

\* a sync run is about to call diff_files on a clone that may have been
\* removed, with the remote at the cloned commit or one commit ahead
GitInit ==
  /\ \E exists \in BOOLEAN,
        upstream_tree \in { InitialTree } \cup { Pushed(c) : c \in Commits } :
       git = [ pc |-> "diff_files", exists |-> exists,
               HEAD |-> InitialTree, worktree |-> InitialTree,
               origin_main |-> InitialTree, upstream |-> upstream_tree,
               calls |-> << >>,
               diff_result |-> NotReturned, pull_result |-> NotReturned ]
  /\ differ = NoDiff
  /\ tracer = NoTrace
  /\ parser = NoCall
  /\ PipelineInit

\* diff_files and pull_repository: repo_manager.validate_exists
ValidateExists ==
  /\ git.pc \in { "diff_files", "pull_repository" }
  /\ git' =
       IF git.exists
         THEN [ git EXCEPT !.pc = IF git.pc = "diff_files" THEN "fetch"
                                                          ELSE "checkout" ]
       ELSE IF git.pc = "diff_files"
         THEN [ git EXCEPT !.pc = "diff_returned",
                           !.diff_result = Failure(RepositoryNotFoundError) ]
         ELSE [ git EXCEPT !.pc = "pull_returned",
                           !.pull_result = Failure(RepositoryNotFoundError) ]
  /\ UNCHANGED << pipeline, history_tracker, poller, initial, parser >>

\* diff_files: git fetch; a command that did not complete may have updated
\* origin/main or not
GitFetch ==
  /\ git.pc = "fetch"
  /\ \E outcome \in Outcomes :
       LET called == [ git EXCEPT !.calls = Append(@, Call("git fetch", outcome)) ]
       IN  IF outcome = Completed
             THEN git' = [ fetch(called) EXCEPT !.pc = "diff" ]
             ELSE \E g \in { called, fetch(called) } :
                    git' = [ g EXCEPT !.pc = "diff_returned",
                                      !.diff_result = Failure(outcome) ]
  /\ UNCHANGED << pipeline, history_tracker, poller, initial, parser >>

\* diff_files: git diff --name-only HEAD origin/main, and the formatted list
GitDiff ==
  /\ git.pc = "diff"
  /\ \E outcome \in Outcomes :
       git' = [ git EXCEPT
                  !.calls = Append(@, Call("git diff", outcome)),
                  !.pc = "diff_returned",
                  !.diff_result =
                     IF outcome = Completed
                       THEN Success(diff_files(git.HEAD, git.origin_main))
                       ELSE Failure(outcome) ]
  /\ UNCHANGED << pipeline, history_tracker, poller, initial, parser >>

\* update_repository_pipeline: a failed diff ends the run, otherwise
\* pull_repository is called
AfterDiff ==
  /\ git.pc = "diff_returned"
  /\ git' = [ git EXCEPT !.pc = IF git.diff_result.success
                                   THEN "pull_repository" ELSE "done" ]
  /\ UNCHANGED << pipeline, history_tracker, poller, initial, parser >>

\* pull_repository: git checkout main
GitCheckout ==
  /\ git.pc = "checkout"
  /\ \E outcome \in Outcomes :
       git' = IF outcome = Completed
                THEN [ git EXCEPT
                         !.calls = Append(@, Call("git checkout", outcome)),
                         !.pc = "pull" ]
                ELSE [ git EXCEPT
                         !.calls = Append(@, Call("git checkout", outcome)),
                         !.pc = "pull_returned",
                         !.pull_result = Failure(outcome) ]
  /\ UNCHANGED << pipeline, history_tracker, poller, initial, parser >>

\* pull_repository: git pull; a command that did not complete may have
\* fetched, or fetched and merged, or neither
GitPull ==
  /\ git.pc = "pull"
  /\ \E outcome \in Outcomes :
       LET called == [ git EXCEPT !.calls = Append(@, Call("git pull", outcome)) ]
       IN  IF outcome = Completed
             THEN git' = [ pull(called) EXCEPT !.pc = "pull_returned",
                                               !.pull_result = Success(<< >>) ]
             ELSE \E g \in { called, fetch(called), pull(called) } :
                    git' = [ g EXCEPT !.pc = "pull_returned",
                                      !.pull_result = Failure(outcome) ]
  /\ UNCHANGED << pipeline, history_tracker, poller, initial, parser >>

\* update_repository_pipeline: a failed pull ends the run; after a pull the
\* run makes no further git call
AfterPull ==
  /\ git.pc = "pull_returned"
  /\ git' = [ git EXCEPT !.pc = "done" ]
  /\ UNCHANGED << pipeline, history_tracker, poller, initial, parser >>

GitNext ==
  \/ ValidateExists
  \/ GitFetch
  \/ GitDiff
  \/ AfterDiff
  \/ GitCheckout
  \/ GitPull
  \/ AfterPull

GitSpec == GitInit /\ [][GitNext]_vars

\* ------------------------------------------------------ the diff renderer
\* longest text given to the renderer
MaxText == 3

NL == "\n"

Chars == { "a", "b", NL }

\* the characters str.strip() removes
Whitespace == { " ", NL }

Texts == UNION { [ 1 .. n -> Chars ] : n \in 0 .. MaxText }

\* position of the first line end of a non-empty text (its length if none)
LineEnd(text) ==
  IF \E k \in 1 .. Len(text) : text[k] = NL
    THEN CHOOSE k \in 1 .. Len(text) :
           text[k] = NL /\ \A j \in 1 .. (k - 1) : text[j] # NL
    ELSE Len(text)

\* str.splitlines(True), and the line split of diff_linesToChars: the lines of
\* a text, each with its line end
RECURSIVE splitlines(_)
splitlines(text) ==
  IF text = << >> THEN << >>
  ELSE << SubSeq(text, 1, LineEnd(text)) >>
       \o splitlines(SubSeq(text, LineEnd(text) + 1, Len(text)))

\* "".join(parts)
RECURSIVE join(_)
join(parts) == IF parts = << >> THEN << >> ELSE Head(parts) \o join(Tail(parts))

\* not line.strip()
IsBlank(line) == \A k \in 1 .. Len(line) : line[k] \in Whitespace

DIFF_DELETE == -1
DIFF_INSERT == 1
DIFF_EQUAL == 0

Max(m, n) == IF m >= n THEN m ELSE n

\* length of a longest common subsequence of two line lists
RECURSIVE lcs(_, _)
lcs(lines1, lines2) ==
  IF lines1 = << >> \/ lines2 = << >> THEN 0
  ELSE IF Head(lines1) = Head(lines2)
    THEN 1 + lcs(Tail(lines1), Tail(lines2))
    ELSE Max(lcs(Tail(lines1), lines2), lcs(lines1, Tail(lines2)))

Edit(op, line) == [ op |-> op, data |-> line ]

\* diff_main over the lines of two texts: a shortest edit script, one entry
\* per line, the deletions of a change before its insertions
RECURSIVE diff_main(_, _)
diff_main(lines1, lines2) ==
  IF lines1 = << >>
    THEN [ k \in 1 .. Len(lines2) |-> Edit(DIFF_INSERT, lines2[k]) ]
  ELSE IF lines2 = << >>
    THEN [ k \in 1 .. Len(lines1) |-> Edit(DIFF_DELETE, lines1[k]) ]
  ELSE IF Head(lines1) = Head(lines2)
    THEN << Edit(DIFF_EQUAL, Head(lines1)) >>
         \o diff_main(Tail(lines1), Tail(lines2))
  ELSE IF lcs(Tail(lines1), lines2) >= lcs(lines1, Tail(lines2))
    THEN << Edit(DIFF_DELETE, Head(lines1)) >> \o diff_main(Tail(lines1), lines2)
  ELSE << Edit(DIFF_INSERT, Head(lines2)) >> \o diff_main(lines1, Tail(lines2))

\* the prefix of a rendered line, an insertion prefixed as unchanged context
MarkerInsertAsContext(op) ==
  IF op = DIFF_DELETE THEN << "-", " " >> ELSE << " ", " " >>

\* the prefix of a rendered line
Marker(op) ==
  IF op = DIFF_INSERT THEN << "+", " " >>
  ELSE IF op = DIFF_DELETE THEN << "-", " " >>
  ELSE << " ", " " >>

\* the result list of generate_highlighted_diff: blank lines are skipped,
\* every other line is appended behind its marker
RECURSIVE RenderLines(_)
RenderLines(diffs) ==
  IF diffs = << >> THEN << >>
  ELSE (IF IsBlank(Head(diffs).data)
          THEN << >>
          ELSE << Marker(Head(diffs).op) \o Head(diffs).data >>)
       \o RenderLines(Tail(diffs))

\* DiffGenerator.generate_highlighted_diff
generate_highlighted_diff(text1, text2) ==
  join(RenderLines(diff_main(splitlines(text1), splitlines(text2))))

\* a caller hands two texts to the renderer
DiffInit ==
  /\ \E text1 \in Texts, text2 \in Texts :
       differ = [ pc |-> "call", text1 |-> text1, text2 |-> text2,
                  out |-> << >> ]
  /\ tracer = NoTrace
  /\ git = NoGit
  /\ parser = NoCall
  /\ PipelineInit

RenderDiff ==
  /\ differ.pc = "call"
  /\ differ' = [ differ EXCEPT
                   !.pc = "done",
                   !.out = generate_highlighted_diff(differ.text1, differ.text2) ]
  /\ UNCHANGED << pipeline, tracer, poller, git, initial, parser >>

DiffNext == RenderDiff

DiffSpec == DiffInit /\ [][DiffNext]_vars

\* ---------------------------------------------------- the history tracker
\* commits touching the traced path
MaxCommits == 3

\* Optional[str]: None, or a text
None == [ none |-> TRUE, text |-> << >> ]
Some(text) == [ none |-> FALSE, text |-> text ]

\* the traced path at one commit: not in the tree of the commit, a blob that
\* cannot be read, or a text made of the traced function (if it is defined)
\* and the rest of the file
Bodies == { << "a" >>, << "b" >> }
Rests == { << >>, << NL >> }
Files ==
  { [ kind |-> k, node |-> None, rest |-> << >> ] :
      k \in { "missing", "unreadable" } }
  \cup { [ kind |-> "text", node |-> n, rest |-> r ] :
           n \in { None } \cup { Some(b) : b \in Bodies }, r \in Rests }

\* the text of a file
Source(file) == file.node.text \o file.rest

\* GitHistoryManager.get_file_history: the commits of the path, newest first
Histories == UNION { [ 1 .. n -> Files ] : n \in 0 .. MaxCommits }

\* the commit at position k of a newest-first list (the oldest is number 1)
CommitAt(commits, k) == Len(commits) - k + 1

\* GitHistoryManager.get_file_content_at_commit: KeyError, ValueError and any
\* other exception give None
get_file_content_at_commit(file) ==
  IF file.kind = "text" THEN Some(Source(file)) ELSE None

\* str.rstrip('\n')
RECURSIVE rstrip(_)
rstrip(text) ==
  IF text # << >> /\ text[Len(text)] = NL
    THEN rstrip(SubSeq(text, 1, Len(text) - 1))
    ELSE text

\* CodeParser.QUERIES: the construct kinds a query exists for
QUERIES == { "function", "async_function", "class", "module", "script" }

\* CodeParser.find_node_body without a line range: None for a kind without a
\* query, the whole text for a module or script, and otherwise the definition
\* the query captures (the traced construct, if the text defines it)
find_node_body(file, node_type) ==
  IF node_type \notin QUERIES THEN None
  ELSE IF node_type \in { "module", "script" } THEN Some(rstrip(Source(file)))
  ELSE file.node

\* Optional[int]: an absent line number, a line number
NoLine == [ none |-> TRUE, line |-> 0 ]
Line(n) == [ none |-> FALSE, line |-> n ]

Min(m, n) == IF m <= n THEN m ELSE n

\* a slice that takes start_line as an index from 0
SliceFromZero(lines, start_line, end_line) ==
  SubSeq(lines, start_line + 1, Min(end_line, Len(lines)))

\* lines[start_line - 1:end_line] for start_line >= 1 and end_line >= 0
Slice(lines, start_line, end_line) ==
  SubSeq(lines, start_line, Min(end_line, Len(lines)))

\* CodeParser.find_node_body with its line range, for a module or script:
\* the lines of the range if both ends are given, otherwise the text, in
\* both cases without the line ends at its end; node_name is not used
find_node_body_lines(source_code, node_name, node_type, start_line, end_line) ==
  IF node_type \notin QUERIES THEN None
  ELSE IF ~start_line.none /\ ~end_line.none
    THEN Some(rstrip(join(Slice(splitlines(source_code),
                                start_line.line, end_line.line))))
    ELSE Some(rstrip(source_code))

\* the calls for a module or a script: any text, any name, with and without
\* each end of the range
ParserInit ==
  /\ \E source_code \in Texts, node_name \in { "f", "g" },
        node_type \in { "module", "script" },
        start_line \in { NoLine } \cup { Line(n) : n \in 1 .. MaxText + 1 },
        end_line \in { NoLine } \cup { Line(n) : n \in 0 .. MaxText + 1 } :
       parser = [ pc |-> "called", source_code |-> source_code,
                  node_name |-> node_name, node_type |-> node_type,
                  start_line |-> start_line, end_line |-> end_line,
                  body |-> None ]
  /\ differ = NoDiff
  /\ tracer = NoTrace
  /\ git = NoGit
  /\ PipelineInit

\* the call returns
FindNodeBody ==
  /\ parser.pc = "called"
  /\ parser' = [ parser EXCEPT
                   !.pc = "returned",
                   !.body = find_node_body_lines(parser.source_code,
                              parser.node_name, parser.node_type,
                              parser.start_line, parser.end_line) ]
  /\ UNCHANGED << pipeline, history_tracker, poller, git, initial >>

ParserNext == FindNodeBody

ParserSpec == ParserInit /\ [][ParserNext]_vars

\* trace_history: whole-file mode unless both a name and a kind are given
is_full_file(node_name, node_type) == node_type = "None" \/ node_name = "None"

\* code_after / code_before / first_code of trace_history for one commit
Reduced(file, node_name, node_type) ==
  IF is_full_file(node_name, node_type)
    THEN get_file_content_at_commit(file)
    ELSE IF get_file_content_at_commit(file).none
      THEN None
      ELSE find_node_body(file, node_type)

\* the record of a change with the two values exchanged
CommitChangeSwapped(commit, code_before, code_after) ==
  [ commit |-> commit, code_before |-> code_after, code_after |-> code_before,
    highlighted_diff |->
      generate_highlighted_diff(code_after.text, code_before.text) ]

\* CommitChange(...): the record of one change
CommitChange(commit, code_before, code_after) ==
  [ commit |-> commit, code_before |-> code_before, code_after |-> code_after,
    highlighted_diff |->
      generate_highlighted_diff(code_before.text, code_after.text) ]

\* the list the records of a call are appended to, kept from the call before
KeptHistory == IF tracer.pc = "traced" THEN tracer.first.history ELSE << >>

\* history = []
NewHistory == << >>

\* every pair with a value on one side taken as a change
ChangedAlways(code_before, code_after) == TRUE

\* if code_after != code_before
Changed(code_before, code_after) == code_after # code_before

\* a record put behind the records of the older pairs
AppendOldestFirst(change, older) == older \o << change >>

\* history.append(change): the record of a pair comes before the records of
\* the pairs walked after it
AppendChange(change, older) == << change >> \o older

\* the loop of trace_history over the pairs (commits[i], commits[i+1])
RECURSIVE PairWalk(_, _, _, _)
PairWalk(commits, i, node_name, node_type) ==
  IF i > Len(commits) - 1 THEN << >>
  ELSE LET code_after == Reduced(commits[i], node_name, node_type)
           code_before == Reduced(commits[i + 1], node_name, node_type)
           older == PairWalk(commits, i + 1, node_name, node_type)
       IN  IF code_after.none /\ code_before.none THEN older
           ELSE IF Changed(code_before, code_after)
             THEN AppendChange(CommitChange(CommitAt(commits, i), code_before,
                                           code_after), older)
             ELSE older

\* trace_history with the first commit always recorded as a creation
trace_history_no_dedup(commits, node_name, node_type) ==
  IF commits = << >> THEN << >>
  ELSE LET history == NewHistory \o PairWalk(commits, 1, node_name, node_type)
           first_code == Reduced(commits[Len(commits)], node_name, node_type)
       IN  IF ~first_code.none
             THEN Append(history, CommitChange(1, None, first_code))
             ELSE history

\* trace_history without the step for the first commit
trace_history_no_creation(commits, node_name, node_type) ==
  IF commits = << >> THEN << >>
  ELSE NewHistory \o PairWalk(commits, 1, node_name, node_type)

\* trace_history with the first commit looked up among the after values
trace_history_dedup_after(commits, node_name, node_type) ==
  IF commits = << >> THEN << >>
  ELSE LET history == NewHistory \o PairWalk(commits, 1, node_name, node_type)
           first_code == Reduced(commits[Len(commits)], node_name, node_type)
       IN  IF /\ ~first_code.none
              /\ \A k \in 1 .. Len(history) :
                   history[k].code_after # first_code
             THEN Append(history, CommitChange(1, None, first_code))
             ELSE history

\* FunctionHistoryTracker.trace_history
trace_history(commits, node_name, node_type) ==
  IF commits = << >> THEN << >>
  ELSE LET history == NewHistory \o PairWalk(commits, 1, node_name, node_type)
           first_code == Reduced(commits[Len(commits)], node_name, node_type)
       IN  IF /\ ~first_code.none
              /\ \A k \in 1 .. Len(history) :
                   history[k].code_before # first_code
             THEN Append(history, CommitChange(1, None, first_code))
             ELSE history

\* what a caller of trace_history gets: the list, or the exception raised
Returned_history(history) == [ raised |-> FALSE, history |-> history ]
Raised == [ raised |-> TRUE, history |-> << >> ]

\* a call of trace_history on the tracer's repository: a repository that
\* cannot be opened or listed raises
Trace(tr) ==
  IF tr.readable
    THEN Returned_history(trace_history(tr.commits, tr.node_name, tr.node_type))
    ELSE Raised

\* a repository with the history of one path, and the arguments of a trace
HistInit ==
  /\ \E commits \in Histories, readable \in BOOLEAN,
        node_name \in { "None", "foo" },
        node_type \in { "None", "function", "module", "struct" } :
       tracer = [ pc |-> "call", readable |-> readable, commits |-> commits,
                  node_name |-> node_name, node_type |-> node_type,
                  at |-> << >>, first |-> Returned_history(<< >>),
                  second |-> Returned_history(<< >>) ]
  /\ differ = NoDiff
  /\ git = NoGit
  /\ parser = NoCall
  /\ PipelineInit

\* trace_history is called
TraceHistory ==
  /\ tracer.pc = "call"
  /\ tracer' = [ tracer EXCEPT !.pc = "traced", !.at = tracer.commits,
                               !.first = Trace(tracer) ]
  /\ UNCHANGED << pipeline, differ, poller, git, initial, parser >>

\* a pull brings a new commit that touches the path
GitCommit ==
  /\ tracer.pc = "traced"
  /\ Len(tracer.commits) < MaxCommits
  /\ \E file \in Files :
       tracer' = [ tracer EXCEPT !.commits = << file >> \o @ ]
  /\ UNCHANGED << pipeline, differ, poller, git, initial, parser >>

\* trace_history is called again with the same arguments
TraceAgain ==
  /\ tracer.pc = "traced"
  /\ tracer' = [ tracer EXCEPT !.pc = "retraced", !.second = Trace(tracer) ]
  /\ UNCHANGED << pipeline, differ, poller, git, initial, parser >>

HistNext == TraceHistory \/ GitCommit \/ TraceAgain

HistSpec == HistInit /\ [][HistNext]_vars

\* ------------------------------------------------------------- the claims
\* update_repository_pipeline tasks sent and not yet finished
InFlight == queued + Cardinality({ w \in Workers : run[w].pc # "idle" })

\* worker w returns from its run in this step
Returned(w) == run[w].pc # "idle" /\ run'[w].pc = "idle"

\* a sync request is accepted in this step
SyncAccepted == queued' = queued + 1

FatalSteps == { "diff", "pull", "delete_entities", "parse", "embed" }

Order == << "diff", "pull", "delete_entities", "parse", "embed", "active" >>

\* exactly one copy of the chunks of generation g (none if g is Absent)
Exactly(g) == [ h \in Gens |-> IF h = g THEN 1 ELSE 0 ]

\* C1: a repository has at most one sync pipeline run in flight (sent or
\* running) at any time. This is the claim; the code violates it.
C1_AtMostOneSyncInFlight == InFlight <= 1

\* C2: every tag of the index has entries of at most one generation, in every
\* reachable state. This is the claim; the code violates it.
C2_OneGenerationPerFile ==
  \A t \in JsonTags : Cardinality({ g \in Gens : index[t][g] > 0 }) <= 1

\* what the whole-repository reparse yields for tag t from the local tree:
\* the generation of its Python file if the file exists and its artifact was
\* rewritten from that content, nothing otherwise
LatestReparse(t) ==
  IF /\ PyFileOf(t) # 0
     /\ local[PyFileOf(t)] # Absent
     /\ artifacts[t] = local[PyFileOf(t)]
    THEN artifacts[t]
    ELSE Absent

\* C3: when a run completes successfully, the index holds for every path of
\* its ChangeSet exactly the chunks of the latest reparse of that path, once.
\* This is the claim; the code violates it.
C3_ChangeSetExactAfterSuccess ==
  [][ \A w \in Workers :
        (Returned(w) /\ result'.outcome = "success")
          => \A t \in Range(run[w].files) : index'[t] = Exactly(LatestReparse(t))
    ]_vars

\* C4: whenever the last run has completed in state active, the index holds
\* for every source file of the current tree exactly the chunks of its latest
\* reparse. This is the claim; the code violates it.
C4_IndexCurrentAfterActive ==
  ( /\ result.outcome = "success"
    /\ InFlight = 0
    /\ status = "active" /\ vectordb_status = "active" )
    => \A t \in JsonTags :
         (PyFileOf(t) # 0 /\ local[PyFileOf(t)] # Absent)
           => index[t] = Exactly(artifacts[t])

StepsInOrder(tr) ==
  /\ Len(tr) <= Len(Order)
  /\ \A k \in 1 .. Len(tr) : tr[k].step = Order[k]

Succeeded(tr, n) == \A k \in 1 .. n : tr[k].result \in { "ok", "skipped" }

\* C5: the steps of a run occur in the order diff, pull, delete_entities,
\* parse, embed, active; the step a run is at is the one after the steps it
\* has ended, all of which succeeded; no step occurs twice in a run.
C5_StepsInOrder ==
  /\ \A w \in Workers :
       run[w].pc # "idle" =>
         /\ StepsInOrder(run[w].trace)
         /\ Succeeded(run[w].trace, Len(run[w].trace))
         /\ Len(run[w].trace) < Len(Order)
         /\ run[w].pc = Order[Len(run[w].trace) + 1]
  /\ result.outcome # "none" =>
       /\ StepsInOrder(result.trace)
       /\ Len(result.trace) >= 1
       /\ Succeeded(result.trace, Len(result.trace) - 1)
       /\ (result.outcome = "success") <=>
            (Len(result.trace) = Len(Order) /\ Succeeded(result.trace, Len(Order)))

C5_Witness ==
  /\ result.outcome = "success"
  /\ result.trace[3] = Step("delete_entities", "ok")
  /\ result.embedded_count > 0

\* C6: when a step of a run fails, that step is the last one of the run (a
\* failed delete_entities is followed by no embed and no insert), the worker
\* is left with nothing to resume, and a worker starts a step again only by
\* taking an accepted sync request from the queue, from the first step.
C6_FailureHalts ==
  /\ [] ( result.outcome \in FatalSteps =>
            /\ result.trace[Len(result.trace)] = Step(result.outcome, "failed")
            /\ Succeeded(result.trace, Len(result.trace) - 1)
            /\ StepsInOrder(result.trace)
            /\ (result.outcome = "delete_entities" => result.embedded_count = 0) )
  /\ [][ \A w \in Workers :
           /\ (Returned(w) /\ result'.outcome \in FatalSteps)
                => /\ run'[w] = IdleRun
                   /\ result'.outcome = run[w].pc
           /\ (run[w].pc = "idle" /\ run'[w] # run[w])
                => /\ queued > 0
                   /\ queued' = queued - 1
                   /\ run'[w] = [ IdleRun EXCEPT !.pc = "diff" ]
       ]_vars

C6_Witness ==
  /\ result.outcome = "delete_entities"
  /\ \E w \in Workers : run[w].pc = "diff"

C8_RejectedWhilePulling ==
  [][ (\E w \in Workers : run[w].pc = "pull") => ~SyncAccepted ]_vars

EmptyRunTrace ==
  << Step("diff", "ok"), Step("pull", "ok"),
     Step("delete_entities", "skipped"), Step("parse", "ok"),
     Step("embed", "skipped"), Step("active", "ok") >>

\* C9: a run whose ChangeSet is empty and whose pull and reparse succeed goes
\* through diff, pull, skipped delete_entities, parse, skipped embed and
\* active, reports deleted_count = 0 and embedded_count = 0, changes no index
\* entry, and writes status active, vectordb_status active at its end.
C9_EmptyChangeSetRun ==
  /\ [] ( ( /\ Len(result.trace) >= 4
            /\ result.trace[3] = Step("delete_entities", "skipped")
            /\ result.trace[4] = Step("parse", "ok")
            /\ result.outcome # "unknown" )
          => /\ result.outcome = "success"
             /\ result.trace = EmptyRunTrace
             /\ result.deleted_count = 0
             /\ result.embedded_count = 0 )
  /\ [][ \A w \in Workers :
           /\ ( /\ run[w].pc \in { "delete_entities", "parse", "embed" }
                /\ run[w].files = << >>
                /\ run'[w] # run[w] )
                => index' = index
           /\ (Returned(w) /\ result'.outcome = "success")
                => (status' = "active" /\ vectordb_status' = "active")
       ]_vars

C9_Witness ==
  /\ result.outcome = "success"
  /\ result.trace = EmptyRunTrace
  /\ status = "active"
  /\ vectordb_status = "active"

\* C10: no step of a run changes the index entries of a tag that is not in
\* the ChangeSet of that run.
C10_OtherPathsUntouched ==
  [][ \A w \in Workers :
        (run[w].pc # "idle" /\ run'[w] # run[w])
          => \A t \in JsonTags \ Range(run[w].files) : index'[t] = index[t]
    ]_vars

C10_Witness ==
  \E w \in Workers :
    /\ run[w].pc = "parse"
    /\ Len(run[w].trace) = 3
    /\ run[w].trace[3] = Step("delete_entities", "ok")
    /\ \E t \in JsonTags \ Range(run[w].files) :
         \E g \in Gens : index[t][g] > 0

\* C11: the ChangeSet of a run (the list diff_files returned) names no path
\* more than once. This is the claim; the code violates it.
C11_ChangeSetDeduplicated ==
  \A w \in Workers :
    \A j, k \in 1 .. Len(run[w].files) :
      run[w].files[j] = run[w].files[k] => j = k

\* C12: after a run has ended with a failed step or an unexpected exception,
\* the repository's persisted error state carries the label of that step in
\* the message get_repository_status returns. This is the claim; the code
\* violates it.
C12_FailurePersistedWithStep ==
  [][ \A w \in Workers :
        (Returned(w) /\ result'.outcome \in FatalSteps \cup { "unknown" })
          => /\ (status' = "error" \/ vectordb_status' = "error")
             /\ error_message' = result'.outcome
    ]_vars

\* the prefix of a line of a rendered diff, and the source line behind it
MarkOf(line) == SubSeq(line, 1, 2)
Payload(line) == SubSeq(line, 3, Len(line))

InsertionMark == << "+", " " >>
DeletionMark == << "-", " " >>
ContextMark == << " ", " " >>

\* the source lines of a rendered diff that carry one of the markers
RECURSIVE MarkedLines(_, _)
MarkedLines(lines, marks) ==
  IF lines = << >> THEN << >>
  ELSE (IF MarkOf(Head(lines)) \in marks
          THEN << Payload(Head(lines)) >>
          ELSE << >>)
       \o MarkedLines(Tail(lines), marks)

RECURSIVE NonBlank(_)
NonBlank(lines) ==
  IF lines = << >> THEN << >>
  ELSE (IF IsBlank(Head(lines)) THEN << >> ELSE << Head(lines) >>)
       \o NonBlank(Tail(lines))

\* C19: the insertion-marked lines of a rendered diff, markers removed and
\* concatenated in order, give the after text, and the deletion-marked lines
\* give the before text (unchanged lines are counted on both sides). This is
\* the claim; the code violates it.
C19_RenderRoundTrip ==
  differ.pc = "done" =>
    /\ join(MarkedLines(splitlines(differ.out), { InsertionMark, ContextMark }))
         = differ.text2
    /\ join(MarkedLines(splitlines(differ.out), { DeletionMark, ContextMark }))
         = differ.text1

\* C20: the diff of the empty text and t consists of insertion-marked lines
\* only, the non-blank lines of t in order; the diff of t and the empty text
\* consists of deletion-marked lines only, likewise.
C20_CreationAndDeletionDiff ==
  differ.pc = "done" =>
    /\ differ.text1 = << >> =>
         /\ \A k \in 1 .. Len(splitlines(differ.out)) :
              MarkOf(splitlines(differ.out)[k]) = InsertionMark
         /\ MarkedLines(splitlines(differ.out), { InsertionMark })
              = NonBlank(splitlines(differ.text2))
    /\ differ.text2 = << >> =>
         /\ \A k \in 1 .. Len(splitlines(differ.out)) :
              MarkOf(splitlines(differ.out)[k]) = DeletionMark
         /\ MarkedLines(splitlines(differ.out), { DeletionMark })
              = NonBlank(splitlines(differ.text1))

C20_Witness ==
  /\ differ.pc = "done"
  /\ differ.text1 = << >>
  /\ Len(splitlines(differ.out)) = 2

\* the first call of trace_history has returned a list
Traced == tracer.pc \in { "traced", "retraced" } /\ ~tracer.first.raised

\* the reduced value of the commit at position k when the call was made
ValueAt(k) == Reduced(tracer.at[k], tracer.node_name, tracer.node_type)

\* the construct has body B1 at the oldest of three commits, another body B2
\* at the next, and the file is deleted at the newest
CreatedModifiedDeleted ==
  /\ Len(tracer.at) = 3
  /\ tracer.at[1].kind = "missing"
  /\ ~ValueAt(2).none
  /\ ~ValueAt(3).none
  /\ ValueAt(2) # ValueAt(3)

\* C13: for a construct created with body B1, modified to B2 and deleted,
\* trace_history returns two records: the deletion (before B2, after absent,
\* every rendered line deletion-marked), then the modification (before B1,
\* after B2); no creation record.
C13_CreateModifyDelete ==
  (Traced /\ CreatedModifiedDeleted) =>
    /\ Len(tracer.first.history) = 2
    /\ tracer.first.history[1].commit = 3
    /\ tracer.first.history[1].code_before = ValueAt(2)
    /\ tracer.first.history[1].code_after = None
    /\ \A k \in 1 .. Len(splitlines(tracer.first.history[1].highlighted_diff)) :
         MarkOf(splitlines(tracer.first.history[1].highlighted_diff)[k])
           = DeletionMark
    /\ tracer.first.history[2].commit = 2
    /\ tracer.first.history[2].code_before = ValueAt(3)
    /\ tracer.first.history[2].code_after = ValueAt(2)

C13_Witness ==
  /\ Traced
  /\ CreatedModifiedDeleted
  /\ tracer.node_type = "function"
  /\ tracer.node_name = "foo"
  /\ Len(tracer.first.history) = 2

\* no adjacent pair of commits shows a change of the reduced value
NoPairChanged ==
  \A k \in 1 .. (Len(tracer.at) - 1) : ValueAt(k) = ValueAt(k + 1)

\* C14 as claimed: when no adjacent pair of commits shows a change,
\* trace_history returns no record. The code violates it.
C14_NoChangeNoRecord ==
  (Traced /\ Len(tracer.at) >= 2 /\ NoPairChanged)
    => tracer.first.history = << >>

\* C14 as amended: when no adjacent pair of commits shows a change,
\* trace_history returns no record for any pair: the list is empty if the
\* construct is absent at the oldest commit, and otherwise it is the creation
\* record of the oldest commit alone.
C14_NoChangeOnlyCreation ==
  (Traced /\ Len(tracer.at) >= 2 /\ NoPairChanged)
    => tracer.first.history
         = IF ValueAt(Len(tracer.at)).none
             THEN << >>
             ELSE << CommitChange(1, None, ValueAt(Len(tracer.at))) >>

C14_Witness ==
  /\ Traced
  /\ Len(tracer.at) = 3
  /\ NoPairChanged
  /\ ~ValueAt(3).none
  /\ Len(tracer.first.history) = 1

\* C15: no record returned by trace_history has a before value equal to its
\* after value.
C15_NoNoOpRecord ==
  Traced =>
    \A k \in 1 .. Len(tracer.first.history) :
      tracer.first.history[k].code_before # tracer.first.history[k].code_after

C15_Witness ==
  /\ Traced
  /\ Len(tracer.first.history) = 1
  /\ Len(tracer.at) = 3
  /\ \E k \in 1 .. (Len(tracer.at) - 1) :
       ~ValueAt(k).none /\ ValueAt(k) = ValueAt(k + 1)

\* C16: the records of trace_history are in the order of the newest-first
\* commit list, a commit has at most one record, and a record of the oldest
\* commit is the creation record and the last element.
C16_NewestFirstCreationLast ==
  Traced =>
    /\ \A k \in 1 .. Len(tracer.first.history) :
         /\ tracer.first.history[k].commit \in 1 .. Len(tracer.at)
         /\ tracer.first.history[k].commit = 1
              => /\ k = Len(tracer.first.history)
                 /\ tracer.first.history[k].code_before = None
    /\ \A j, k \in 1 .. Len(tracer.first.history) :
         j < k => tracer.first.history[j].commit > tracer.first.history[k].commit

C16_Witness ==
  /\ Traced
  /\ tracer.node_type = "None"
  /\ Len(tracer.at) = 3
  /\ tracer.at[1].kind = "text"
  /\ Len(tracer.first.history) = 2
  /\ tracer.first.history[1].commit = 3
  /\ tracer.first.history[2].commit = 2

\* C17: a trace that cannot read the content of a revision gives an explicit
\* failure, not a list of records. This is the claim; the code violates it.
C17_ReadFailureReported ==
  ( /\ tracer.pc \in { "traced", "retraced" }
    /\ \E k \in 1 .. Len(tracer.at) : tracer.at[k].kind = "unreadable" )
    => tracer.first.raised

C21_UnsupportedKindIsCallerError ==
  ( /\ tracer.pc \in { "traced", "retraced" }
    /\ tracer.readable
    /\ tracer.node_name # "None"
    /\ tracer.node_type \notin QUERIES \cup { "None" }
    /\ Len(tracer.at) >= 1
    /\ \A k \in 1 .. Len(tracer.at) :
         tracer.at[k].kind = "text" /\ ~tracer.at[k].node.none )
    => /\ \A k \in 1 .. Len(tracer.at) :
            find_node_body(tracer.at[k], tracer.node_type) # None
       /\ tracer.first # Returned_history(<< >>)

\* C22: when a run completes successfully, a path of its ChangeSet whose file
\* was deleted by the pull, or could not be parsed by the reparse, has no
\* entry in the index. This is the claim; the code violates it.
C22_DeletedPathLeavesNoEntry ==
  [][ \A w \in Workers :
        (Returned(w) /\ result'.outcome = "success")
          => \A t \in Range(run[w].files) :
               LatestReparse(t) = Absent => index'[t] = EmptyEntries
    ]_vars

\* the timer reports an outcome in this step
Reports(outcome) == poller.pc = "polling" /\ poller'.pc = outcome

\* the run of the sync the timer was started for has ended: no later sync
\* was accepted and no task is sent or running, so result is its result
WatchedRunEnded == poller.sync = syncCount /\ InFlight = 0

\* C23: the status timer reports success only after the run of the sync it
\* was started for has ended in state active, and reports failure only after
\* that run has failed. This is the claim; the code violates it.
C23_PollerReportsOwnRun ==
  [][ /\ Reports("success")
           => (WatchedRunEnded /\ result.outcome = "success")
      /\ Reports("failed")
           => (WatchedRunEnded /\ result.outcome \in FatalSteps \cup { "unknown" })
    ]_vars

\* the positions of the returned list that hold a record of commit c
RecordsOf(c) ==
  { k \in 1 .. Len(tracer.first.history) : tracer.first.history[k].commit = c }

\* C24: for every pair of adjacent commits (i, i+1) of the newest-first list,
\* trace_history returns a record of commit i exactly when the reduced values
\* at i and i+1 differ (one of them absent included); the record carries
\* before = the value at i+1, after = the value at i and the diff of the two
\* texts, an absent value taken as the empty text.
C24_PairRecordIffValuesDiffer ==
  Traced =>
    \A i \in 1 .. (Len(tracer.at) - 1) :
      IF ValueAt(i) # ValueAt(i + 1)
        THEN /\ Cardinality(RecordsOf(CommitAt(tracer.at, i))) = 1
             /\ \A k \in RecordsOf(CommitAt(tracer.at, i)) :
                  /\ tracer.first.history[k].code_before = ValueAt(i + 1)
                  /\ tracer.first.history[k].code_after = ValueAt(i)
                  /\ tracer.first.history[k].highlighted_diff
                       = generate_highlighted_diff(
                           IF ValueAt(i + 1).none THEN << >>
                                                  ELSE ValueAt(i + 1).text,
                           IF ValueAt(i).none THEN << >> ELSE ValueAt(i).text)
        ELSE RecordsOf(CommitAt(tracer.at, i)) = { }

C24_Witness ==
  /\ Traced
  /\ Len(tracer.at) = 3
  /\ ValueAt(1).none
  /\ ~ValueAt(2).none
  /\ ValueAt(2) = ValueAt(3)
  /\ RecordsOf(3) # { }
  /\ RecordsOf(2) = { }

\* the reduced value of the oldest commit
OldestValue == ValueAt(Len(tracer.at))

\* the positions of the returned list whose before value is v
BeforeIs(v) ==
  { k \in 1 .. Len(tracer.first.history) :
      tracer.first.history[k].code_before = v }

\* C25: trace_history returns a record of the oldest commit, exactly one, the
\* last of the list, with before null and after the oldest commit's reduced
\* value, if and only if that value is not absent and is the before value of
\* no record of a pair; so the last record of a non-empty list has a null
\* before unless the oldest value is a before value in the list.
C25_CreationRecordIffNew ==
  (Traced /\ Len(tracer.at) >= 1) =>
    /\ IF ~OldestValue.none /\ BeforeIs(OldestValue) \ RecordsOf(1) = { }
         THEN /\ RecordsOf(1) = { Len(tracer.first.history) }
              /\ tracer.first.history[Len(tracer.first.history)].code_before
                   = None
              /\ tracer.first.history[Len(tracer.first.history)].code_after
                   = OldestValue
         ELSE RecordsOf(1) = { }
    /\ tracer.first.history # << >> =>
         \/ tracer.first.history[Len(tracer.first.history)].code_before = None
         \/ BeforeIs(OldestValue) # { }

C25_Witness ==
  /\ Traced
  /\ Len(tracer.at) = 3
  /\ ~OldestValue.none
  /\ ValueAt(1) = OldestValue
  /\ BeforeIs(OldestValue) # { }
  /\ RecordsOf(1) = { }
  /\ Len(tracer.first.history) = 2

\* C26: when a construct name or a construct kind is given to trace_history,
\* the value of every readable revision is the result of find_node_body for
\* the given kind, not the whole text of the file. This is the claim; the
\* code violates it.
C26_ConstructModeUnlessBothAbsent ==
  (Traced /\ ~(tracer.node_name = "None" /\ tracer.node_type = "None")) =>
    \A k \in 1 .. Len(tracer.at) :
      tracer.at[k].kind = "text" =>
        ValueAt(k) = find_node_body(tracer.at[k], tracer.node_type)

\* C27: every line of the text generate_highlighted_diff returns is one
\* marker followed by one line of text1 or text2, and that line is not blank.
\* This is the claim; the code violates it.
C27_OneMarkerOneLine ==
  differ.pc = "done" =>
    \A k \in 1 .. Len(splitlines(differ.out)) :
      /\ MarkOf(splitlines(differ.out)[k])
           \in { InsertionMark, DeletionMark, ContextMark }
      /\ Payload(splitlines(differ.out)[k])
           \in Range(splitlines(differ.text1)) \cup Range(splitlines(differ.text2))
      /\ ~IsBlank(Payload(splitlines(differ.out)[k]))

\* the positions of a ChangeSet whose artifact exists
WithArtifact(files) == { k \in 1 .. Len(files) : artifacts[files[k]] # Absent }

\* C28: a pass of the embedding loop over a path whose artifact does not
\* exist goes on to the next path and changes neither the index nor the
\* persisted state; a run in which no embedding fails or raises ends with
\* every path that has an artifact embedded, one insert per listed path, and
\* with status active, vectordb_status active.
C28_MissingArtifactSkipped ==
  [][ \A w \in Workers :
        /\ ( /\ run[w].pc = "embed"
             /\ run[w].i <= Len(run[w].files)
             /\ run'[w] # run[w]
             /\ ~(Returned(w) /\ result'.outcome = "unknown") )
           => IF artifacts[run[w].files[run[w].i]] = Absent
                THEN /\ run'[w] = [ run[w] EXCEPT !.i = @ + 1 ]
                     /\ index' = index
                     /\ UNCHANGED repository
                ELSE \/ Returned(w) /\ result'.outcome = "embed"
                     \/ run'[w] = [ run[w] EXCEPT !.i = @ + 1,
                                                   !.embedded_count = @ + 1 ]
        /\ (Returned(w) /\ result'.outcome = "success")
             => /\ result'.embedded_count = Cardinality(WithArtifact(run[w].files))
                /\ \A k \in WithArtifact(run[w].files) :
                     index'[run[w].files[k]][artifacts[run[w].files[k]]] >= 1
                /\ status' = "active"
                /\ vectordb_status' = "active"
    ]_vars

C28_Witness ==
  /\ result.outcome = "success"
  /\ result.deleted_count = 2
  /\ result.embedded_count = 1
  /\ status = "active"
  /\ vectordb_status = "active"
  /\ \E t \in JsonTags : artifacts[t] = Absent /\ index[t] = EmptyEntries

\* C29: when the reparse step of a run reports success, the artifact of every
\* source file of the pulled tree equals the chunks of the file's content at
\* HEAD. This is the claim; the code violates it.
C29_ReparseOverwritesEveryArtifact ==
  [][ \A w \in Workers :
        (run[w].pc = "parse" /\ run'[w].pc = "embed")
          => \A k \in scan_repository(local) :
               artifacts'[with_suffix(RepoFiles[k], "json")] = local[k]
    ]_vars

\* C30: every accepted sync is taken from the queue and every run ends; the
\* step that ends a run leaves status at active or error; and status does
\* not stay at updating: whenever it is updating it later is not.
C30_EveryRunEnds ==
  /\ \A n \in 1 .. MaxSync : (queued = n) ~> (queued < n)
  /\ \A w \in Workers : (run[w].pc # "idle") ~> (run[w].pc = "idle")
  /\ (status = "updating") ~> (status \in { "active", "error" })
  /\ <>[](InFlight = 0 /\ status \in { "active", "error" })
  /\ [][ \A w \in Workers :
           Returned(w) => status' \in { "active", "error" } ]_vars

C30_Witness ==
  /\ syncCount = MaxSync
  /\ InFlight = 0
  /\ result.outcome = "unknown"
  /\ status = "error"

\* the git commands of diff_files and of pull_repository
DiffCommands == { "git fetch", "git diff" }
PullCommands == { "git checkout", "git pull" }

\* the calls of the run that timed out or ended with non-zero status
FailedCalls ==
  { k \in 1 .. Len(git.calls) : git.calls[k].outcome # Completed }

\* C31: a git command that times out or exits with non-zero status makes
\* diff_files or pull_repository, whichever called it, return a failure
\* whose error is the text of the exception; it is the last git command of
\* the run, and no command is invoked twice in a run.
C31_GitFailureReturnedNotRetried ==
  /\ \A j, k \in 1 .. Len(git.calls) :
       git.calls[j].command = git.calls[k].command => j = k
  /\ \A k \in FailedCalls :
       /\ k = Len(git.calls)
       /\ git.calls[k].command \in DiffCommands =>
            /\ git.diff_result = [ returned |-> TRUE, success |-> FALSE,
                                   files |-> << >>,
                                   error |-> git.calls[k].outcome.text ]
            /\ git.pull_result = NotReturned
       /\ git.calls[k].command \in PullCommands =>
            git.pull_result = [ returned |-> TRUE, success |-> FALSE,
                                files |-> << >>,
                                error |-> git.calls[k].outcome.text ]

C31_Witness ==
  /\ git.pc = "done"
  /\ Len(git.calls) = 4
  /\ git.calls[4] = Call("git pull", GitTimeoutError)
  /\ git.pull_result.error = GitTimeoutError.text

\* C35: no step of diff_files changes HEAD or the checked-out files of the
\* clone, whether it returns success or failure; only origin/main may change.
C35_DiffFilesReadOnly ==
  [][ git.pc \in { "diff_files", "fetch", "diff" }
        => /\ git'.HEAD = git.HEAD
           /\ git'.worktree = git.worktree
           /\ git'.upstream = git.upstream
    ]_vars

C35_Witness ==
  /\ git.pc = "diff_returned"
  /\ git.diff_result.success
  /\ git.diff_result.files # << >>
  /\ git.origin_main # InitialTree
  /\ git.HEAD = InitialTree
  /\ git.worktree = InitialTree

\* C32: while the first processing of a repository (clone, parse, embed) is
\* in flight, no sync request is accepted, so no update task is queued or
\* running at the same time
C32_NoSyncDuringProcessing ==
  [][ (initial \in { "queued", "clone", "parse", "embed" })
        => /\ queued' = queued
           /\ queued = 0
           /\ \A w \in Workers : run[w].pc = "idle" ]_vars

\* the first processing is embedding while the remote has a commit to sync;
\* no update task is queued
C32_Witness ==
  /\ initial = "embed"
  /\ status = "syncing"
  /\ vectordb_status = "syncing"
  /\ pushCount > 0
  /\ queued = 0

\* C33: a repository whose status is pending, syncing or updating has a
\* pipeline task that was dispatched and has not ended
C33_InProgressHasPipeline ==
  (status \in { "pending", "syncing", "updating" })
    => \/ initial \in { "creating", "queued", "clone", "parse", "embed" }
       \/ queued > 0
       \/ \E w \in Workers : run[w].pc # "idle"

\* the lines of the parsed text
SourceLines == splitlines(parser.source_code)

\* a call for a module or script has returned; its range, if it has both
\* ends, is inside the text
ModuleBodyReturned ==
  /\ parser.pc = "returned"
  /\ parser.node_type \in { "module", "script" }
  /\ (~parser.start_line.none /\ ~parser.end_line.none)
       => /\ 1 <= parser.start_line.line
          /\ parser.start_line.line <= parser.end_line.line
          /\ parser.end_line.line <= Len(SourceLines)

HasRange == ~parser.start_line.none /\ ~parser.end_line.none

\* the lines start_line..end_line of the text if the call has both, and
\* the whole text otherwise
Selected ==
  IF HasRange
    THEN join(SubSeq(SourceLines, parser.start_line.line,
                     parser.end_line.line))
    ELSE parser.source_code

\* a text without the line end of its last line, if it has one
WithoutLastLineEnd(text) ==
  IF text # << >> /\ text[Len(text)] = NL
    THEN SubSeq(text, 1, Len(text) - 1)
    ELSE text

RECURSIVE SumTo(_, _)
SumTo(entries, n) == IF n = 0 THEN 0 ELSE entries[n] + SumTo(entries, n - 1)

RECURSIVE EntriesOf(_, _)
EntriesOf(idx, tags) ==
  IF tags = { } THEN 0
  ELSE LET t == CHOOSE t \in tags : TRUE
       IN  SumTo(idx[t], MaxPush + 1) + EntriesOf(idx, tags \ { t })

====
